---- MODULE Spec2Model ----
(***************************************************************************)
(* Model of the scoring API: the descriptor-based field validators and     *)
(* request schemas of models.py, the dispatcher method_handler of api.py   *)
(* and the scoring functions of scoring.py.                                *)
(*                                                                         *)
(* Python values are records [k, s, n, l, e]:                                *)
(*   k  the type ("None", "str", "int", "dict", "list"; "absent" for a key *)
(*      the JSON object does not hold, "unread" for a key not looked at)   *)
(*   s  the characters of a str, or the decimal digits of an int (Python   *)
(*      ints are unbounded: 70000000000 does not fit a machine word)       *)
(*   n  for a dict, the call whose request body holds it                   *)
(*   l  the items of a list                                                *)
(*   e  for a dict, whether it is the empty map {}                         *)
(***************************************************************************)
EXTENDS Integers, Sequences, FiniteSets, TLC

\* ------------------------------------------------------------------ bounds
\* Threads that may call method_handler (SpecConc interleaves them).
NThreads == 2
\* The clock runs over the hours 0..MaxClock.
MaxClock == 1
\* client_ids lists hold at most MaxIds identifiers, drawn from 1..MaxIds.
MaxIds == 2
\* random.sample is observed on the first MaxTagIdx tags of the vocabulary.
MaxTagIdx == 3

Threads == 1..NThreads

\* ------------------------------------------------------------------ values
Val(k, s, n, l) == [k |-> k, s |-> s, n |-> n, l |-> l, e |-> FALSE]
None == Val("None", <<>>, 0, <<>>)
Absent == Val("absent", <<>>, 0, <<>>)
Unread == Val("unread", <<>>, 0, <<>>)
MkStr(s) == Val("str", s, 0, <<>>)
MkInt(digits) == Val("int", digits, 0, <<>>)
MkDict(owner, empty) == [Val("dict", <<>>, owner, <<>>) EXCEPT !.e = empty]
MkList(items) == Val("list", <<>>, 0, items)

\* dict.get(key, None): a missing key and a JSON null both come back as None.
Get(raw) == IF raw.k = "absent" THEN None ELSE raw

\* Python truthiness: None, "", 0, {} and [] are falsy.
Truthy(v) ==
    CASE v.k = "None" -> FALSE
      [] v.k = "str" -> v.s # <<>>
      [] v.k = "int" -> v.s # <<"0">>
      [] v.k = "list" -> v.l # <<>>
      [] v.k = "dict" -> ~v.e
      [] OTHER -> TRUE

Digits == {"0", "1", "2", "3", "4", "5", "6", "7", "8", "9"}

DigitVal(c) ==
    CASE c = "0" -> 0 [] c = "1" -> 1 [] c = "2" -> 2 [] c = "3" -> 3
      [] c = "4" -> 4 [] c = "5" -> 5 [] c = "6" -> 6 [] c = "7" -> 7
      [] c = "8" -> 8 [] c = "9" -> 9

DigitChar(d) == <<"0", "1", "2", "3", "4", "5", "6", "7", "8", "9">>[d + 1]

\* a < b on canonical decimal digit strings of non-negative integers.
RECURSIVE LexLess(_, _)
LexLess(a, b) ==
    IF a = <<>> THEN FALSE
    ELSE IF DigitVal(Head(a)) # DigitVal(Head(b))
         THEN DigitVal(Head(a)) < DigitVal(Head(b))
         ELSE LexLess(Tail(a), Tail(b))

DecLess(a, b) == Len(a) < Len(b) \/ (Len(a) = Len(b) /\ LexLess(a, b))

\* str(value) as DateField applies it before matching.
PyStr(v) ==
    CASE v.k = "str" -> v.s
      [] v.k = "int" -> v.s
      [] v.k = "None" -> <<"N", "o", "n", "e">>
      [] v.k = "dict" -> <<"{", "}">>
      [] OTHER -> <<"[", "]">>

\* ------------------------------------------------------------------ constants
SALT == <<"O", "t", "u", "s">>
ADMIN_LOGIN == <<"a", "d", "m", "i", "n">>
ADMIN_SALT == <<"4", "2">>
OK == 200
FORBIDDEN == 403
INVALID_REQUEST == 422
INTERNAL_ERROR == 500

PHONE_MIN == <<"7", "0", "0", "0", "0", "0", "0", "0", "0", "0", "0">>
PHONE_MAX == <<"7", "9", "9", "9", "9", "9", "9", "9", "9", "9", "9">>

\* ------------------------------------------------------------------ validators
\* A validator returns (ok, error); strptime may raise ValueError instead.
Valid == [ok |-> TRUE, err |-> "", raised |-> FALSE]
Invalid(rule) == [ok |-> FALSE, err |-> rule, raised |-> FALSE]
Raised(rule) == [ok |-> FALSE, err |-> rule, raised |-> TRUE]

\* CharField.validate without its empty-string rule.
CharFieldValidate_NoEmptyRule(required, nullable, value) ==
    IF required /\ value.k = "None" THEN Invalid("is required")
    ELSE IF ~required /\ value.k = "None" THEN Valid
    ELSE IF value.k # "str" THEN Invalid("must be a string")
    ELSE Valid

CharFieldValidate(required, nullable, value) ==
    IF required /\ value.k = "None" THEN Invalid("is required")
    ELSE IF ~required /\ value.k = "None" THEN Valid
    ELSE IF value.k # "str" THEN Invalid("must be a string")
    ELSE IF ~nullable /\ value.s = <<>> THEN Invalid("must be a non empty string")
    ELSE Valid

ArgumentsFieldValidate(required, nullable, value) ==
    IF required /\ value.k = "None" THEN Invalid("is required")
    ELSE IF value.k # "dict" THEN Invalid("must be a dictionary")
    ELSE IF ~nullable /\ value.e THEN Invalid("must be a non empty dictionary")
    ELSE Valid

EmailFieldValidate(required, nullable, value) ==
    LET base == CharFieldValidate(required, nullable, value)
        text == PyStr(value)
    IN  IF ~base.ok THEN base
        ELSE IF ~(\E i \in 1..Len(text) : text[i] = "@")
             THEN Invalid("must be a valid email")
             ELSE Valid

PhoneFieldValidate(required, nullable, value) ==
    IF required /\ value.k = "None" THEN Invalid("is required")
    ELSE IF value.k # "str" /\ value.k # "int"
         THEN Invalid("must be a string or an integer")
    ELSE IF value.k = "int"
         THEN IF ~nullable /\ value.s = <<"0">>
              THEN Invalid("must be a non emptyvalid phone number")
              ELSE IF DecLess(value.s, PHONE_MIN) \/ DecLess(PHONE_MAX, value.s)
                   THEN Invalid("must be a valid phone number")
                   ELSE Valid
    ELSE IF ~nullable /\ value.s = <<>>
         THEN Invalid("must be a non empty valid phone number")
    ELSE IF value.s = <<>> \/ Head(value.s) # "7" \/ Len(value.s) # 11
         THEN Invalid("must be a valid phone number")
    ELSE Valid

\* re.match(r"\d{2}\.\d{2}\.\d{4}", text): the pattern is matched as a prefix.
DatePatternMatches(text) ==
    /\ Len(text) >= 10
    /\ \A i \in {1, 2, 4, 5, 7, 8, 9, 10} : text[i] \in Digits
    /\ text[3] = "."
    /\ text[6] = "."

TwoDigits(text, i) == 10 * DigitVal(text[i]) + DigitVal(text[i + 1])

YearOf(text) ==
    1000 * DigitVal(text[7]) + 100 * DigitVal(text[8]) + TwoDigits(text, 9)

IsLeap(y) == (y % 4 = 0 /\ y % 100 # 0) \/ y % 400 = 0

DaysInMonth(y, m) ==
    IF m = 2 THEN (IF IsLeap(y) THEN 29 ELSE 28)
    ELSE IF m \in {4, 6, 9, 11} THEN 30 ELSE 31

\* datetime.strptime(text, "%d.%m.%Y") on a text the pattern matched: the whole
\* text must be consumed and name a real calendar date, else ValueError.
StrptimeOk(text) ==
    /\ Len(text) = 10
    /\ TwoDigits(text, 4) \in 1..12
    /\ YearOf(text) >= 1
    /\ TwoDigits(text, 1) \in 1..DaysInMonth(YearOf(text), TwoDigits(text, 4))

\* parsed_date == date.min compares a datetime with a date: never equal.
EqualsDateMin(text) == FALSE

DateFieldValidate(required, nullable, value) ==
    LET text == PyStr(value)
    IN  IF required /\ value.k = "None" THEN Invalid("is required")
        ELSE IF ~DatePatternMatches(text) THEN Invalid("must be a valid date")
        ELSE IF ~StrptimeOk(text) THEN Raised("strptime")
        ELSE IF ~nullable /\ EqualsDateMin(text)
             THEN Invalid("must be a non empty date")
        ELSE Valid

BirthDayFieldValidate(required, nullable, value, nowYear) ==
    LET base == DateFieldValidate(required, nullable, value)
    IN  IF ~base.ok THEN base
        ELSE IF ~(YearOf(PyStr(value)) > nowYear - 70)
             THEN Invalid("must be less than 70 years old")
             ELSE Valid

GenderFieldValidate(required, nullable, value) ==
    IF required /\ value.k = "None" THEN Invalid("is required")
    ELSE IF value.k # "int" THEN Invalid("must be an integer")
    ELSE IF value.s \notin {<<"0">>, <<"1">>, <<"2">>}
         THEN Invalid("must be 0, 1 or 2")
    ELSE Valid

ClientIDsFieldValidate(required, nullable, value) ==
    IF required /\ value.k = "None" THEN Invalid("is required")
    ELSE IF value.k # "list" \/ ~(\A i \in 1..Len(value.l) : value.l[i].k = "int")
         THEN Invalid("must be a list of integers")
    ELSE IF ~nullable /\ value.l = <<>>
         THEN Invalid("must be a non empty list of integers")
    ELSE Valid

\* ------------------------------------------------------------------ clock
\* datetime.now() after `c` hours, the clock starting at 2026-12-31 23:00.
NowYear(c) == IF c = 0 THEN 2026 ELSE 2027
NowMonth(c) == IF c = 0 THEN 12 ELSE 1
NowDay(c) == IF c = 0 THEN 31 ELSE 1 + ((c - 1) \div 24)
NowHour(c) == IF c = 0 THEN 23 ELSE (c - 1) % 24

RECURSIVE ZeroPad(_, _)
ZeroPad(num, width) ==
    IF width = 0 THEN <<>>
    ELSE Append(ZeroPad(num \div 10, width - 1), DigitChar(num % 10))

\* datetime.now().strftime("%Y%m%d%H")
StrftimeHour(c) ==
    ZeroPad(NowYear(c), 4) \o ZeroPad(NowMonth(c), 2)
        \o ZeroPad(NowDay(c), 2) \o ZeroPad(NowHour(c), 2)

\* hashlib.sha512(text.encode("utf-8")).hexdigest(): a collision-free digest,
\* written as the marker "#" followed by the text it was computed from.
Sha512Hex(text) == <<"#">> \o text

\* ------------------------------------------------------------------ schemas
EnvelopeFields == <<"account", "login", "token", "arguments", "method">>
ScoreFields == <<"phone", "email", "first_name", "last_name", "birthday", "gender">>
InterestsFields == <<"client_ids", "date">>
AllFields ==
    {"account", "login", "token", "arguments", "method", "phone", "email",
     "first_name", "last_name", "birthday", "gender", "client_ids", "date"}

\* The class-level field declarations and the validate() each one dispatches to.
FieldValidate(field, value, nowYear) ==
    CASE field = "account" -> CharFieldValidate(FALSE, TRUE, value)
      [] field = "login" -> CharFieldValidate(TRUE, TRUE, value)
      [] field = "method" -> CharFieldValidate(TRUE, FALSE, value)
      [] field = "token" -> CharFieldValidate(TRUE, TRUE, value)
      [] field = "arguments" -> ArgumentsFieldValidate(TRUE, TRUE, value)
      [] field = "phone" -> PhoneFieldValidate(FALSE, TRUE, value)
      [] field = "email" -> EmailFieldValidate(FALSE, TRUE, value)
      [] field = "first_name" -> CharFieldValidate(FALSE, TRUE, value)
      [] field = "last_name" -> CharFieldValidate(FALSE, TRUE, value)
      [] field = "birthday" -> BirthDayFieldValidate(FALSE, TRUE, value, nowYear)
      [] field = "gender" -> GenderFieldValidate(FALSE, TRUE, value)
      [] field = "client_ids" -> ClientIDsFieldValidate(TRUE, FALSE, value)
      [] field = "date" -> DateFieldValidate(FALSE, TRUE, value)

\* ------------------------------------------------------------------ outcomes
\* What a call ends with: a returned (payload, code) pair or a raised exception.
\* A payload is a message, a score (in tenths) or the interests mapping.
NoPayload ==
    [type |-> "none", text |-> "", field |-> "", rule |-> "", score |-> 0, map |-> {}]
Message(text) == [NoPayload EXCEPT !.type = "str", !.text = text]
FieldMessage(field, rule) ==
    [NoPayload EXCEPT !.type = "str", !.text = "Invalid field value for",
                      !.field = field, !.rule = rule]
ScorePayload(tenths) == [NoPayload EXCEPT !.type = "score", !.score = tenths]
InterestsPayload(map) == [NoPayload EXCEPT !.type = "interests", !.map = map]

NoResult == [kind |-> "none", code |-> 0, payload |-> NoPayload]
Return(payload, code) == [kind |-> "return", code |-> code, payload |-> payload]
Raise(payload) == [kind |-> "raise", code |-> 0, payload |-> payload]

\* str(e) of the ValueError a failed __set__ ends with.
SetError(field, outcome) ==
    IF outcome.raised THEN Message(outcome.err)
    ELSE FieldMessage(field, outcome.err)

\* do_POST: an exception leaving the router becomes INTERNAL_ERROR.
HttpCode(res) == IF res.kind = "raise" THEN INTERNAL_ERROR ELSE res.code

\* ------------------------------------------------------------------ scoring
Tenths(present, points) == IF present THEN points ELSE 0

\* scoring.get_score, in tenths of a point.
get_score(phone, email, birthday, gender, first_name, last_name) ==
    Tenths(Truthy(phone), 15) + Tenths(Truthy(email), 15)
        + Tenths(Truthy(birthday) /\ Truthy(gender), 15)
        + Tenths(Truthy(first_name) /\ Truthy(last_name), 5)

interests ==
    <<"cars", "pets", "travel", "hi-tech", "sport", "music", "books", "tv",
      "cinema", "geek", "otus">>

\* What random.sample(interests, 2) may return: two tags at distinct positions.
SamplePairs ==
    {<<interests[i], interests[j]>> :
        i \in 1..MaxTagIdx, j \in 1..MaxTagIdx} \ {<<interests[i], interests[i]>> : i \in 1..MaxTagIdx}

\* ------------------------------------------------------------------ state
VARIABLES
    store,   \* the value each class-level descriptor holds (self.value)
    clock,   \* hours elapsed on the wall clock
    focus,   \* which part of a request the environment varies
    pc,      \* where each thread's call stands
    flow,    \* what each thread runs: method_handler or a schema used directly
    req,     \* the request of each thread's call, as far as it has been read
    data,    \* the dict each thread's argument schema is constructed from
    ctx,     \* the per-call context
    result,  \* what each thread's call ended with
    hist     \* per call: the steps it has taken and the clock readings it made

vars == <<store, clock, focus, pc, flow, req, data, ctx, result, hist>>

NoCtx == [has_set |-> FALSE, has |-> {}, nclients_set |-> FALSE, nclients |-> 0]
NoRequest == [f \in AllFields |-> Unread]
NoHist == [ran |-> {}, auth_hour |-> 0, birthday_hour |-> 0]

\* MethodRequest.is_admin
is_admin(st) == st["login"].k = "str" /\ st["login"].s = ADMIN_LOGIN

\* check_auth that trusts the admin login without comparing the token.
check_auth_AdminUnchecked(st, c) ==
    LET account == IF Truthy(st["account"]) THEN st["account"].s ELSE <<>>
    IN  \/ is_admin(st)
        \/ st["token"].k = "str"
             /\ Sha512Hex(account \o st["login"].s \o SALT) = st["token"].s

\* MethodRequest.check_auth, reading the descriptors at hour `c`.
check_auth(st, c) ==
    LET account == IF Truthy(st["account"]) THEN st["account"].s ELSE <<>>
        digest ==
            IF is_admin(st) THEN Sha512Hex(StrftimeHour(c) \o ADMIN_SALT)
            ELSE Sha512Hex(account \o st["login"].s \o SALT)
    IN  st["token"].k = "str" /\ digest = st["token"].s

\* validate() that forgets the (phone, email) pair.
ScoreValidate_NoContactPair(st) ==
    \/ Truthy(st["first_name"]) /\ Truthy(st["last_name"])
    \/ Truthy(st["gender"]) /\ Truthy(st["birthday"])

\* OnlineScoreRequest.validate
ScoreValidate(st) ==
    \/ Truthy(st["phone"]) /\ Truthy(st["email"])
    \/ Truthy(st["first_name"]) /\ Truthy(st["last_name"])
    \/ Truthy(st["gender"]) /\ Truthy(st["birthday"])

\* OnlineScoreRequest.execute
ScoreExecute(st) ==
    IF ~ScoreValidate(st) THEN Raise(Message("Invalid arguments"))
    ELSE Return(ScorePayload(get_score(st["phone"], st["email"], st["birthday"],
                                       st["gender"], st["first_name"],
                                       st["last_name"])), OK)

\* The keys of the mapping ClientsInterestsRequest.execute builds.
ClientKeys(ids) == {ids.l[i].s : i \in 1..Len(ids.l)}

\* ------------------------------------------------------------------ inputs
\* The values the environment may send for each key. The part of the request
\* `focus` names is varied widely, the rest is kept to well-formed values.
ONLINE_SCORE == <<"o", "n", "l", "i", "n", "e", "_", "s", "c", "o", "r", "e">>
CLIENTS_INTERESTS ==
    <<"c", "l", "i", "e", "n", "t", "s", "_", "i", "n", "t", "e", "r", "e", "s", "t", "s">>
UserLogin == <<"u">>
PhoneDigits == <<"7", "9", "0", "0", "0", "0", "0", "0", "0", "0", "1">>
GoodDate == <<"0", "1", ".", "0", "1", ".", "2", "0", "0", "0">>
EdgeDate == <<"0", "1", ".", "0", "1", ".", "1", "9", "5", "7">>
NoSuchDate == <<"3", "0", ".", "0", "2", ".", "2", "0", "0", "0">>
IdItem(i) == MkInt(<<DigitChar(i)>>)

\* The token a client holding the secrets would send for its own credentials,
\* and the admin token of the hour it sends the request in.
UserToken(t) ==
    LET account == Get(req[t]["account"])
    IN  MkStr(Sha512Hex((IF Truthy(account) THEN account.s ELSE <<>>)
                            \o Get(req[t]["login"]).s \o SALT))
AdminToken == MkStr(Sha512Hex(StrftimeHour(clock) \o ADMIN_SALT))

IdLists ==
    UNION {[1..len -> {IdItem(i) : i \in 1..MaxIds}] : len \in 1..MaxIds}

EnvelopeInputs(field, t) ==
    CASE field = "account" ->
            IF focus = "envelope"
            THEN {Absent, None, MkStr(<<"a">>), MkInt(<<"1">>)} ELSE {Absent}
      [] field = "login" ->
            IF focus = "envelope"
            THEN {Absent, MkInt(<<"1">>), MkStr(<<>>), MkStr(UserLogin), MkStr(ADMIN_LOGIN)}
            ELSE {MkStr(UserLogin), MkStr(ADMIN_LOGIN)}
      [] field = "token" ->
            IF focus = "envelope"
            THEN {Absent, MkInt(<<"1">>), MkStr(<<>>), UserToken(t), AdminToken}
            ELSE {UserToken(t), AdminToken}
      [] field = "arguments" ->
            IF focus = "envelope"
            THEN {Absent, MkInt(<<"1">>), MkDict(t, TRUE), MkDict(t, FALSE)}
            ELSE {MkDict(t, FALSE)}
      [] field = "method" ->
            CASE focus = "envelope" ->
                    {Absent, MkInt(<<"1">>), MkStr(<<>>), MkStr(<<"f">>),
                     MkStr(ONLINE_SCORE), MkStr(CLIENTS_INTERESTS)}
              [] focus = "score" -> {MkStr(ONLINE_SCORE)}
              [] focus = "interests" -> {MkStr(CLIENTS_INTERESTS)}
              [] OTHER -> {MkStr(ONLINE_SCORE), MkStr(CLIENTS_INTERESTS)}

ArgumentInputs(field) ==
    CASE field = "phone" ->
            IF focus = "score"
            THEN {Absent, MkStr(PhoneDigits), MkInt(PhoneDigits), MkStr(<<"8">>)}
            ELSE {MkStr(PhoneDigits)}
      [] field = "email" ->
            IF focus = "score"
            THEN {Absent, MkStr(<<"a", "@">>), MkStr(<<"a">>)}
            ELSE {MkStr(<<"a", "@">>)}
      [] field = "first_name" ->
            IF focus = "score"
            THEN {Absent, MkStr(<<>>), MkStr(<<"x">>)} ELSE {MkStr(<<"x">>)}
      [] field = "last_name" ->
            IF focus = "score"
            THEN {Absent, MkStr(<<"y">>), MkInt(<<"1">>)} ELSE {MkStr(<<"y">>)}
      [] field = "birthday" ->
            IF focus = "score"
            THEN {Absent, MkStr(GoodDate), MkStr(EdgeDate), MkStr(NoSuchDate)}
            ELSE {MkStr(GoodDate)}
      [] field = "gender" ->
            IF focus = "score"
            THEN {Absent, MkInt(<<"0">>), MkInt(<<"1">>), MkInt(<<"2">>), MkInt(<<"3">>)}
            ELSE {MkInt(<<"1">>)}
      [] field = "client_ids" ->
            IF focus = "interests"
            THEN {Absent, MkList(<<>>), MkList(<<MkStr(<<"x">>)>>)}
                    \cup {MkList(l) : l \in IdLists}
            ELSE {MkList(<<IdItem(1)>>)}
      [] field = "date" ->
            IF focus = "interests"
            THEN {Absent, None, MkStr(GoodDate), MkStr(NoSuchDate),
                  MkStr(Append(GoodDate, "x"))}
            ELSE {MkStr(GoodDate)}

\* data.get(field) on the dict `d`: an empty dict holds no key; a key of a
\* request body reads the same at every look.
DictInputs(d, field) ==
    IF d.e THEN {Absent}
    ELSE IF req[d.n][field] # Unread THEN {req[d.n][field]}
    ELSE ArgumentInputs(field)

\* ------------------------------------------------------------------ actions
Idle(t) == pc[t] \in {"idle", "done"}

\* method_handler turns the ValueError of a constructor into (str(e), 422); a
\* schema constructed directly lets it propagate.
OnFailure(t, message) ==
    IF flow[t] = "handler" THEN Return(message, INVALID_REQUEST) ELSE Raise(message)

\* __set__ that returns early on None, leaving the descriptor's earlier value.
DescriptorSet_KeepsOnNone(t, owner, field, inputs, next, mark) ==
    \E raw \in inputs :
        LET value == Get(raw)
            outcome == FieldValidate(field, value, NowYear(clock))
        IN  /\ req' = [req EXCEPT ![owner][field] = raw]
            /\ IF outcome.ok
               THEN /\ store' = IF value.k = "None" THEN store
                                ELSE [store EXCEPT ![field] = value]
                    /\ pc' = [pc EXCEPT ![t] = next]
                    /\ UNCHANGED result
               ELSE /\ pc' = [pc EXCEPT ![t] = "done"]
                    /\ result' = [result EXCEPT ![t] =
                                      OnFailure(t, SetError(field, outcome))]
                    /\ UNCHANGED store
            /\ hist' = [hist EXCEPT
                   ![t].ran = IF outcome.ok THEN @ \cup mark ELSE @,
                   ![t].birthday_hour = IF field = "birthday" THEN clock ELSE @]
            /\ UNCHANGED <<clock, focus, flow, data, ctx>>

\* BaseValidatedField.__set__ on the descriptor `field`, the value coming from
\* key `field` of the request body of call `owner`: validate, then store. A
\* failure ends the constructor with ValueError. `mark` names the step of the
\* call that ends when this assignment succeeds.
DescriptorSet(t, owner, field, inputs, next, mark) ==
    \E raw \in inputs :
        LET value == Get(raw)
            outcome == FieldValidate(field, value, NowYear(clock))
        IN  /\ req' = [req EXCEPT ![owner][field] = raw]
            /\ IF outcome.ok
               THEN /\ store' = [store EXCEPT ![field] = value]
                    /\ pc' = [pc EXCEPT ![t] = next]
                    /\ UNCHANGED result
               ELSE /\ pc' = [pc EXCEPT ![t] = "done"]
                    /\ result' = [result EXCEPT ![t] =
                                      OnFailure(t, SetError(field, outcome))]
                    /\ UNCHANGED store
            /\ hist' = [hist EXCEPT
                   ![t].ran = IF outcome.ok THEN @ \cup mark ELSE @,
                   ![t].birthday_hour = IF field = "birthday" THEN clock ELSE @]
            /\ UNCHANGED <<clock, focus, flow, data, ctx>>

\* The hour passes.
Tick ==
    /\ clock < MaxClock
    /\ clock' = clock + 1
    /\ UNCHANGED <<store, focus, pc, flow, req, data, ctx, result, hist>>

\* A request arrives: method_handler(request, ctx, store) is entered.
StartCall(t) ==
    /\ pc' = [pc EXCEPT ![t] = "account"]
    /\ flow' = [flow EXCEPT ![t] = "handler"]
    /\ req' = [req EXCEPT ![t] = NoRequest]
    /\ data' = [data EXCEPT ![t] = None]
    /\ ctx' = [ctx EXCEPT ![t] = NoCtx]
    /\ result' = [result EXCEPT ![t] = NoResult]
    /\ hist' = [hist EXCEPT ![t] = NoHist]
    /\ UNCHANGED <<store, clock, focus>>

\* MethodRequest.__init__, one assignment at a time.
SetAccount(t) ==
    /\ pc[t] = "account"
    /\ DescriptorSet(t, t, "account", EnvelopeInputs("account", t), "login", {})

SetLogin(t) ==
    /\ pc[t] = "login"
    /\ DescriptorSet(t, t, "login", EnvelopeInputs("login", t), "token", {})

SetToken(t) ==
    /\ pc[t] = "token"
    /\ DescriptorSet(t, t, "token", EnvelopeInputs("token", t), "arguments", {})

SetArguments(t) ==
    /\ pc[t] = "arguments"
    /\ DescriptorSet(t, t, "arguments", EnvelopeInputs("arguments", t), "method", {})

SetMethod(t) ==
    /\ pc[t] = "method"
    /\ DescriptorSet(t, t, "method", EnvelopeInputs("method", t), "check_auth", {"envelope"})

\* if not method_request.check_auth(): return "Forbidden", FORBIDDEN
CheckAuth(t) ==
    /\ pc[t] = "check_auth"
    /\ IF check_auth(store, clock)
       THEN /\ pc' = [pc EXCEPT ![t] = "route"]
            /\ UNCHANGED result
       ELSE /\ pc' = [pc EXCEPT ![t] = "done"]
            /\ result' = [result EXCEPT ![t] = Return(Message("Forbidden"), FORBIDDEN)]
    /\ hist' = [hist EXCEPT
           ![t].ran = @ \cup (IF check_auth(store, clock)
                              THEN {"check_auth", "authenticated"}
                              ELSE {"check_auth"}),
           ![t].auth_hour = clock]
    /\ UNCHANGED <<store, clock, focus, flow, req, data, ctx>>

\* The method lookup; the schema chosen is handed method_request.arguments.
Route(t) ==
    /\ pc[t] = "route"
    /\ IF store["method"].s = ONLINE_SCORE
       THEN /\ pc' = [pc EXCEPT ![t] = "phone"]
            /\ data' = [data EXCEPT ![t] = store["arguments"]]
            /\ UNCHANGED result
       ELSE IF store["method"].s = CLIENTS_INTERESTS
       THEN /\ pc' = [pc EXCEPT ![t] = "client_ids"]
            /\ data' = [data EXCEPT ![t] = store["arguments"]]
            /\ UNCHANGED result
       ELSE /\ pc' = [pc EXCEPT ![t] = "done"]
            /\ result' = [result EXCEPT ![t] =
                              Return(Message("Invalid method"), INVALID_REQUEST)]
            /\ UNCHANGED data
    /\ hist' = [hist EXCEPT ![t].ran = @ \cup {"lookup"}]
    /\ UNCHANGED <<store, clock, focus, flow, req, ctx>>

\* OnlineScoreRequest.__init__, one assignment at a time.
SetPhone(t) ==
    /\ pc[t] = "phone"
    /\ DescriptorSet(t, data[t].n, "phone", DictInputs(data[t], "phone"), "email", {})

SetEmail(t) ==
    /\ pc[t] = "email"
    /\ DescriptorSet(t, data[t].n, "email", DictInputs(data[t], "email"), "first_name", {})

SetFirstName(t) ==
    /\ pc[t] = "first_name"
    /\ DescriptorSet(t, data[t].n, "first_name", DictInputs(data[t], "first_name"),
                     "last_name", {})

SetLastName(t) ==
    /\ pc[t] = "last_name"
    /\ DescriptorSet(t, data[t].n, "last_name", DictInputs(data[t], "last_name"),
                     "birthday", {})

SetBirthday(t) ==
    /\ pc[t] = "birthday"
    /\ DescriptorSet(t, data[t].n, "birthday", DictInputs(data[t], "birthday"),
                     "gender", {})

SetGender(t) ==
    /\ pc[t] = "gender"
    /\ DescriptorSet(t, data[t].n, "gender", DictInputs(data[t], "gender"),
                     IF flow[t] = "handler" THEN "get_fields" ELSE "execute_score", {"schema"})

\* ctx["has"] = argument_request.get_fields(): no class defines get_fields, so
\* the attribute lookup raises AttributeError, which method_handler does not
\* catch; the assignment, the admin shortcut and execute() are never reached.
GetFields(t) ==
    /\ pc[t] = "get_fields"
    /\ pc' = [pc EXCEPT ![t] = "done"]
    /\ result' = [result EXCEPT ![t] = Raise(Message("AttributeError"))]
    /\ UNCHANGED <<store, clock, focus, flow, req, data, ctx, hist>>

\* ClientsInterestsRequest.__init__, one assignment at a time.
SetClientIds(t) ==
    /\ pc[t] = "client_ids"
    /\ DescriptorSet(t, data[t].n, "client_ids", DictInputs(data[t], "client_ids"),
                     "date", {})

SetDate(t) ==
    /\ pc[t] = "date"
    /\ DescriptorSet(t, data[t].n, "date", DictInputs(data[t], "date"),
                     IF flow[t] = "handler" THEN "nclients" ELSE "execute_interests", {"schema"})

\* ctx["nclients"] = len(argument_request.client_ids)
RecordClients(t) ==
    /\ pc[t] = "nclients"
    /\ ctx' = [ctx EXCEPT ![t].nclients_set = TRUE,
                          ![t].nclients = Len(store["client_ids"].l)]
    /\ pc' = [pc EXCEPT ![t] = "execute_interests"]
    /\ UNCHANGED <<store, clock, focus, flow, req, data, result, hist>>

\* ClientsInterestsRequest.execute: one sample per identifier of client_ids.
ExecuteInterests(t) ==
    /\ pc[t] = "execute_interests"
    /\ \E sample \in [ClientKeys(store["client_ids"]) -> SamplePairs] :
           result' = [result EXCEPT ![t] =
               Return(InterestsPayload({[cid |-> c, tags |-> sample[c]] :
                                            c \in ClientKeys(store["client_ids"])}), OK)]
    /\ pc' = [pc EXCEPT ![t] = "done"]
    /\ UNCHANGED <<store, clock, focus, flow, req, data, ctx, hist>>

\* OnlineScoreRequest(data) constructed and executed by a caller of the class.
DirectScore(t) ==
    /\ focus = "score"
    /\ pc' = [pc EXCEPT ![t] = "phone"]
    /\ flow' = [flow EXCEPT ![t] = "score"]
    /\ req' = [req EXCEPT ![t] = [NoRequest EXCEPT !["arguments"] = MkDict(t, FALSE)]]
    /\ data' = [data EXCEPT ![t] = MkDict(t, FALSE)]
    /\ ctx' = [ctx EXCEPT ![t] = NoCtx]
    /\ result' = [result EXCEPT ![t] = NoResult]
    /\ hist' = [hist EXCEPT ![t] = NoHist]
    /\ UNCHANGED <<store, clock, focus>>

ExecuteScore(t) ==
    /\ pc[t] = "execute_score"
    /\ result' = [result EXCEPT ![t] = ScoreExecute(store)]
    /\ pc' = [pc EXCEPT ![t] = "done"]
    /\ UNCHANGED <<store, clock, focus, flow, req, data, ctx, hist>>

\* ClientsInterestsRequest(data) constructed and executed by a caller of the class.
DirectInterests(t) ==
    /\ focus = "interests"
    /\ pc' = [pc EXCEPT ![t] = "client_ids"]
    /\ flow' = [flow EXCEPT ![t] = "interests"]
    /\ req' = [req EXCEPT ![t] = [NoRequest EXCEPT !["arguments"] = MkDict(t, FALSE)]]
    /\ data' = [data EXCEPT ![t] = MkDict(t, FALSE)]
    /\ ctx' = [ctx EXCEPT ![t] = NoCtx]
    /\ result' = [result EXCEPT ![t] = NoResult]
    /\ hist' = [hist EXCEPT ![t] = NoHist]
    /\ UNCHANGED <<store, clock, focus>>

\* ------------------------------------------------------------------ specifications
Fresh ==
    /\ store = [f \in AllFields |-> None]
    /\ clock = 0
    /\ pc = [t \in Threads |-> "idle"]
    /\ flow = [t \in Threads |-> "handler"]
    /\ req = [t \in Threads |-> NoRequest]
    /\ data = [t \in Threads |-> None]
    /\ ctx = [t \in Threads |-> NoCtx]
    /\ result = [t \in Threads |-> NoResult]
    /\ hist = [t \in Threads |-> NoHist]

Init == Fresh /\ focus \in {"envelope", "score", "interests"}

InitConc == Fresh /\ focus = "threads"

Steps(t) ==
    \/ SetAccount(t) \/ SetLogin(t) \/ SetToken(t) \/ SetArguments(t) \/ SetMethod(t)
    \/ CheckAuth(t) \/ Route(t)
    \/ SetPhone(t) \/ SetEmail(t) \/ SetFirstName(t) \/ SetLastName(t)
    \/ SetBirthday(t) \/ SetGender(t) \/ GetFields(t)
    \/ SetClientIds(t) \/ SetDate(t) \/ RecordClients(t) \/ ExecuteInterests(t)

\* The server of api.py (HTTPServer) handles one request at a time.
SeqCall == Idle(1) /\ StartCall(1)
SeqDirectScore == Idle(1) /\ DirectScore(1)
SeqDirectInterests == Idle(1) /\ DirectInterests(1)

Next ==
    \/ Tick
    \/ SeqCall
    \/ SeqDirectScore
    \/ SeqDirectInterests
    \/ Steps(1)
    \/ ExecuteScore(1)

Spec == Init /\ [][Next]_vars

\* Two calls of method_handler on two threads, interleaved at every descriptor
\* access.
ConcCall(t) == pc[t] = "idle" /\ StartCall(t)

NextConc == \E t \in Threads : ConcCall(t) \/ Steps(t)

SpecConc == InitConc /\ [][NextConc]_vars

\* ------------------------------------------------------------------ properties
\* What the claims speak of, stated on a call's own request, not on the descriptors.
HandlerDone(t) == flow[t] = "handler" /\ pc[t] = "done"
Own(t, field) == Get(req[t][field])
EnvelopeSettled(t) ==
    /\ flow[t] = "handler"
    /\ pc[t] \notin {"idle", "account", "login", "token", "arguments", "method"}
ArgumentKeysUnread(t) ==
    \A f \in AllFields \ {"account", "login", "token", "arguments", "method"} :
        req[t][f] = Unread

\* The envelope shape of the data model: account absent (None) or a string, login
\* and token strings, arguments a map, method a non-empty string.
EnvelopeShape(r) ==
    /\ Get(r["account"]).k \in {"None", "str"}
    /\ Get(r["login"]).k = "str"
    /\ Get(r["token"]).k = "str"
    /\ Get(r["arguments"]).k = "dict"
    /\ Get(r["method"]).k = "str" /\ Get(r["method"]).s # <<>>

\* The rule of the field validators a value of an envelope field breaks.
BrokenRule(field, v) ==
    IF v.k = "None" /\ field # "account" THEN "is required"
    ELSE IF field = "arguments" /\ v.k # "dict" THEN "must be a dictionary"
    ELSE IF field # "arguments" /\ v.k # "str" THEN "must be a string"
    ELSE IF field = "method" /\ v.s = <<>> THEN "must be a non empty string"
    ELSE "none"

\* The digest of section 4.2 over the request's own credentials.
OwnDigest(r, hour) ==
    IF Get(r["login"]).s = ADMIN_LOGIN
    THEN Sha512Hex(StrftimeHour(hour) \o ADMIN_SALT)
    ELSE Sha512Hex((IF Get(r["account"]).k = "str" THEN Get(r["account"]).s ELSE <<>>)
                       \o Get(r["login"]).s \o SALT)
OwnAuth(r, hour) == Get(r["token"]).s = OwnDigest(r, hour)

\* C1: a call whose envelope has the valid shape and whose token is not the
\* digest of its credentials ends with ("Forbidden", 403): no argument schema
\* was constructed, no method was looked up, no key of arguments was read and
\* nothing was written to ctx.
C1_ForbiddenBeforeAnythingElse ==
    \A t \in Threads :
        (/\ EnvelopeSettled(t)
         /\ pc[t] # "check_auth"
         /\ EnvelopeShape(req[t])
         /\ ~OwnAuth(req[t], hist[t].auth_hour))
        => /\ pc[t] = "done"
           /\ result[t] = Return(Message("Forbidden"), FORBIDDEN)
           /\ hist[t].ran = {"envelope", "check_auth"}
           /\ data[t] = None
           /\ ctx[t] = NoCtx
           /\ ArgumentKeysUnread(t)

\* A non-admin call for online_score with a non-empty arguments map and the
\* admin token of the hour was refused.
C1_Witness ==
    \E t \in Threads :
        /\ HandlerDone(t)
        /\ Own(t, "login") = MkStr(UserLogin)
        /\ Own(t, "token") = MkStr(Sha512Hex(StrftimeHour(hist[t].auth_hour) \o ADMIN_SALT))
        /\ Own(t, "method") = MkStr(ONLINE_SCORE)
        /\ ~Own(t, "arguments").e
        /\ result[t].code = FORBIDDEN

\* C7: the envelope is constructed exactly when the request has the envelope
\* shape; otherwise the call ends with 422 and the message of the rule the
\* offending field breaks, before the auth check and the method lookup.
C7_EnvelopeConstruction ==
    \A t \in Threads :
        EnvelopeSettled(t) =>
            IF EnvelopeShape(req[t])
            THEN "envelope" \in hist[t].ran
            ELSE /\ pc[t] = "done"
                 /\ hist[t].ran = {}
                 /\ data[t] = None
                 /\ \E f \in {"account", "login", "token", "arguments", "method"} :
                        /\ req[t][f] # Unread
                        /\ BrokenRule(f, Own(t, f)) # "none"
                        /\ result[t] =
                               Return(FieldMessage(f, BrokenRule(f, Own(t, f))),
                                      INVALID_REQUEST)

\* An empty login, an empty token and an empty map were accepted and the empty
\* method was refused.
C7_Witness ==
    \E t \in Threads :
        /\ HandlerDone(t)
        /\ Own(t, "login") = MkStr(<<>>)
        /\ Own(t, "token") = MkStr(<<>>)
        /\ Own(t, "arguments") = MkDict(t, TRUE)
        /\ Own(t, "method") = MkStr(<<>>)
        /\ result[t] = Return(FieldMessage("method", "must be a non empty string"),
                              INVALID_REQUEST)

\* The outcome of method_handler on request `r` when every descriptor holds what
\* `r` itself supplies, the clock read as the call read it.
RECURSIVE FirstFailure(_, _, _)
FirstFailure(fields, r, year) ==
    IF fields = <<>> THEN [failed |-> FALSE, payload |-> NoPayload]
    ELSE LET outcome == FieldValidate(Head(fields), Get(r[Head(fields)]), year)
         IN  IF outcome.ok THEN FirstFailure(Tail(fields), r, year)
             ELSE [failed |-> TRUE, payload |-> SetError(Head(fields), outcome)]

OutcomeOf(r, h) ==
    LET own == [f \in AllFields |-> Get(r[f])]
        year == NowYear(h.birthday_hour)
        envelope == FirstFailure(EnvelopeFields, r, year)
        score == FirstFailure(ScoreFields, r, year)
        clients == FirstFailure(InterestsFields, r, year)
    IN  IF envelope.failed THEN Return(envelope.payload, INVALID_REQUEST)
        ELSE IF ~check_auth(own, h.auth_hour)
             THEN Return(Message("Forbidden"), FORBIDDEN)
        ELSE IF own["method"].s = ONLINE_SCORE
             THEN IF score.failed THEN Return(score.payload, INVALID_REQUEST)
                  ELSE Raise(Message("AttributeError"))
        ELSE IF own["method"].s = CLIENTS_INTERESTS
             THEN IF clients.failed THEN Return(clients.payload, INVALID_REQUEST)
                  ELSE Return(InterestsPayload(ClientKeys(own["client_ids"])), OK)
        ELSE Return(Message("Invalid method"), INVALID_REQUEST)

SameUpToSampling(actual, expected) ==
    /\ HttpCode(actual) = HttpCode(expected)
    /\ actual.kind = expected.kind
    /\ actual.payload.type = expected.payload.type
    /\ IF actual.payload.type = "interests"
       THEN {entry.cid : entry \in actual.payload.map} = expected.payload.map
       ELSE actual.payload = expected.payload

\* C10: handled one at a time, a call's status code and payload (up to the tags
\* sampled) are those its own request and clock readings determine, whatever
\* earlier calls left in the descriptors.
C10_OutcomeIndependentOfHistory ==
    \A t \in Threads :
        HandlerDone(t) => SameUpToSampling(result[t], OutcomeOf(req[t], hist[t]))

\* A call has ended while the descriptors still hold what an earlier call, whose
\* construction failed part-way, wrote: another phone and no gender.
C10_Witness ==
    \E t \in Threads :
        /\ HandlerDone(t)
        /\ req[t]["phone"] # Unread
        /\ store["phone"].k # "None"
        /\ store["phone"] # Own(t, "phone")
        /\ store["gender"].k = "None"

\* ------------------------------------------------------------------ claims the code breaks
ScoreKeys == {"phone", "email", "first_name", "last_name", "birthday", "gender"}
InterestsKeys == {"client_ids", "date"}
IsAdmin(t) == Own(t, "login") = MkStr(ADMIN_LOGIN)
Authenticated(t) ==
    /\ HandlerDone(t)
    /\ EnvelopeShape(req[t])
    /\ OwnAuth(req[t], hist[t].auth_hour)

\* No key looked at so far holds an invalid value: each is omitted or valid.
NothingInvalid(t, keys) ==
    \A f \in keys :
        \/ req[t][f] \in {Unread, Absent}
        \/ FieldValidate(f, Own(t, f), NowYear(hist[t].birthday_hour)).ok
AllRead(t, keys) == \A f \in keys : req[t][f] # Unread

\* A member of a pair is present: supplied, not null and not empty. 0 is present.
Present(raw) ==
    /\ raw.k \notin {"unread", "absent", "None"}
    /\ raw.k = "str" => raw.s # <<>>
PairPresent(t, a, b) == Present(req[t][a]) /\ Present(req[t][b])
SomePairPresent(t) ==
    \/ PairPresent(t, "phone", "email")
    \/ PairPresent(t, "first_name", "last_name")
    \/ PairPresent(t, "gender", "birthday")
\* A pair the request may still hold: no member of it was read as missing.
PairPossible(t, a, b) ==
    /\ req[t][a] = Unread \/ Present(req[t][a])
    /\ req[t][b] = Unread \/ Present(req[t][b])
SomePairPossible(t) ==
    \/ PairPossible(t, "phone", "email")
    \/ PairPossible(t, "first_name", "last_name")
    \/ PairPossible(t, "gender", "birthday")
PairSum(t) ==
    Tenths(PairPresent(t, "phone", "email"), 15)
        + Tenths(PairPresent(t, "gender", "birthday"), 15)
        + Tenths(PairPresent(t, "first_name", "last_name"), 5)

\* C2: an authenticated admin call for online_score ends with {"score": 42} and
\* code 200, whatever arguments holds.
C2_AdminScoreIs42 ==
    \A t \in Threads :
        (Authenticated(t) /\ IsAdmin(t) /\ Own(t, "method") = MkStr(ONLINE_SCORE))
        => result[t] = Return(ScorePayload(420), OK)

\* C3: an authenticated non-admin call for online_score whose arguments are
\* valid and hold a full pair ends with code 200 and the sum of 1.5 for (phone,
\* email), 1.5 for (birthday, gender) and 0.5 for (first_name, last_name).
C3_ScoreIsSumOverPairs ==
    \A t \in Threads :
        (/\ Authenticated(t)
         /\ ~IsAdmin(t)
         /\ Own(t, "method") = MkStr(ONLINE_SCORE)
         /\ NothingInvalid(t, ScoreKeys)
         /\ SomePairPossible(t))
        => /\ HttpCode(result[t]) = OK
           /\ AllRead(t, ScoreKeys) => result[t].payload = ScorePayload(PairSum(t))

\* C4: an authenticated clients_interests call whose arguments hold a non-empty
\* list of distinct integers as client_ids and no date ends with code 200 and a
\* mapping with exactly those identifiers as keys, each to two distinct tags of
\* the vocabulary.
C4_InterestsForEachClient ==
    \A t \in Threads :
        (/\ Authenticated(t)
         /\ Own(t, "method") = MkStr(CLIENTS_INTERESTS)
         /\ FieldValidate("client_ids", Own(t, "client_ids"), 0).ok
         /\ Cardinality(ClientKeys(Own(t, "client_ids"))) = Len(Own(t, "client_ids").l)
         /\ req[t]["date"] = Absent)
        => /\ result[t].kind = "return"
           /\ result[t].code = OK
           /\ result[t].payload.type = "interests"
           /\ {entry.cid : entry \in result[t].payload.map}
                  = ClientKeys(Own(t, "client_ids"))
           /\ \A entry \in result[t].payload.map :
                  /\ entry.tags[1] # entry.tags[2]
                  /\ \A i \in 1..2 :
                         \E j \in 1..Len(interests) : entry.tags[i] = interests[j]

C6_OptionalFieldsMayBeOmitted ==
    \A t \in Threads :
        (/\ pc[t] = "done"
         /\ \E f \in ScoreKeys \cup InterestsKeys : req[t][f] # Unread
         /\ req[t]["client_ids"] # Absent
         /\ NothingInvalid(t, ScoreKeys \cup InterestsKeys))
        => result[t].payload.field \notin ScoreKeys \cup InterestsKeys

\* The names of the score arguments the request supplies.
SuppliedNames(t) == {f \in ScoreKeys : req[t][f] \notin {Unread, Absent}}

\* C8: once the argument schema is constructed, ctx holds the record of the call
\* (the names supplied, or the number of client identifiers) and the outcome is
\* the one the call has without the recording step.
C8_ContextRecorded ==
    \A t \in Threads :
        (HandlerDone(t) /\ "schema" \in hist[t].ran)
        => IF Own(t, "method") = MkStr(ONLINE_SCORE)
           THEN /\ ctx[t].has_set
                /\ ctx[t].has = SuppliedNames(t)
                /\ result[t] = IF IsAdmin(t) THEN Return(ScorePayload(420), OK)
                               ELSE IF ScoreValidate(store) THEN ScoreExecute(store)
                               ELSE Return(Message("Invalid arguments"), INVALID_REQUEST)
           ELSE /\ ctx[t].nclients_set
                /\ ctx[t].nclients = Len(Own(t, "client_ids").l)
                /\ SameUpToSampling(result[t], OutcomeOf(req[t], hist[t]))

\* C9: whenever a call is about to read descriptors (to authenticate, to look
\* the method up, to count or to walk client_ids), they hold the values of its
\* own request.
C9_ReadsOwnValues ==
    \A t \in Threads :
        /\ pc[t] = "check_auth" =>
               \A f \in {"account", "login", "token"} : store[f] = Own(t, f)
        /\ pc[t] = "route" =>
               \A f \in {"method", "arguments"} : store[f] = Own(t, f)
        /\ pc[t] \in {"nclients", "execute_interests"} =>
               store["client_ids"] = Own(t, "client_ids")

====
